---------------------------- MODULE Spec2Model ----------------------------
(***************************************************************************)
(* liftBigWig.py: the overlap-repair sweep adjust_overlaps and the         *)
(* pipeline driver convert_bigwig.                                         *)
(*                                                                         *)
(*   SpecRepair   one call of adjust_overlaps, one loop iteration per      *)
(*                step, followed by a second call on the first call's      *)
(*                output.                                                  *)
(*   Spec         one call of convert_bigwig, one statement or one         *)
(*                process event per step.                                  *)
(***************************************************************************)
EXTENDS Integers, Sequences, FiniteSets, TLC

\* Lines per bedGraph file handed to adjust_overlaps.
MaxLen == 3
\* Largest coordinate of an input line.
MaxCoord == 2

VARIABLES
    \* ---- adjust_overlaps (src/liftBigWig.py:25-45)
    infile,         \* lines the for-loop has read from input_file so far
    outfile,        \* lines written to output_file so far
    current_chrom,  \* line 27
    current_end,    \* line 28
    rpc,            \* "loop" | "closed" | "rerun"
    second_out,     \* output file of the second call (<<>> before it)
    \* ---- convert_bigwig (src/liftBigWig.py:54-134)
    pc,             \* statement the driver is at
    source_assembly,
    target_assembly,
    clean_temp,
    exists,         \* files present in the working directory
    active,         \* stages begun and not yet ended
    trace           \* every process run and file opened, in order (history)

rvars == <<infile, outfile, current_chrom, current_end, rpc, second_out>>
pvars == <<pc, source_assembly, target_assembly, clean_temp, exists, active,
           trace>>
vars == <<infile, outfile, current_chrom, current_end, rpc, second_out,
          pc, source_assembly, target_assembly, clean_temp, exists, active,
          trace>>

---------------------------------------------------------------------------
(***************************************************************************)
(* adjust_overlaps                                                         *)
(*                                                                         *)
(* A line is the result of line.strip().split() with start and end passed  *)
(* through int(): chrom and value are opaque tokens, start and end are     *)
(* Python integers (unbounded, so no width).  The writer prints start and  *)
(* end with str(), and int(str(n)) = n for every integer, hence a written  *)
(* line is read back as the same record.                                   *)
(***************************************************************************)

\* Python's None; no chromosome token equals it (line 35 compares a str).
NoChrom == "None"

Chroms == {"chr1", "chr2"}
\* sort -k1,1 orders chromosome names as byte strings.
ChromRank(c) == IF c = "chr1" THEN 1 ELSE 2

\* int() at line 33 accepts a sign, so a start below 0 is an input too.
Starts == -1 .. MaxCoord
Ends == 0 .. MaxCoord

Interval(c, s, e, v) == [chrom |-> c, start |-> s, end |-> e, value |-> v]

\* The lines a file may hold at position i.  The value token is never
\* inspected by the code (split at line 32, written back at line 44), so the
\* i-th line carries the token i: distinct tokens tell the lines apart.
LinesAt(i) == { Interval(c, s, e, i) : c \in Chroms, s \in Starts, e \in Ends }

Cursor(c, e) == [chrom |-> c, end |-> e]

\* Lines 35-37: a chromosome other than the cursor's resets the cursor.
KeepCursor(chrom, cur) ==
    IF chrom # cur.chrom THEN Cursor(chrom, cur.end) ELSE cur
ResetCursor(chrom, cur) ==
    IF chrom # cur.chrom THEN Cursor(chrom, 0) ELSE cur

\* Lines 39-41: an overlapping start is moved to current_end.
NoAdjust(start, cend) == start
BumpStart(start, cend) == IF start <= cend THEN cend + 1 ELSE start
AdjustStart(start, cend) == IF start < cend THEN cend ELSE start

\* Line 43.
AllowEmpty(start, end) == start <= end
IsValidRegion(start, end) == start < end

\* Line 44: the line written for an accepted interval.
WriteInputStart(ln, start) == ln
WriteOneBased(ln, start) == Interval(ln.chrom, start + 1, ln.end, ln.value)
WrittenLine(ln, start) == Interval(ln.chrom, start, ln.end, ln.value)

\* Lines 32-45: one iteration of the loop on line ln, from cursor cur and
\* output out; the new cursor and output.
DropOverlapping(cur, out, ln) ==
    LET c == ResetCursor(ln.chrom, cur)
    IN  IF ln.start >= c.end /\ IsValidRegion(ln.start, ln.end)
        THEN [cur |-> Cursor(c.chrom, ln.end),
              out |-> Append(out, WrittenLine(ln, ln.start))]
        ELSE [cur |-> c, out |-> out]
LoopBody(cur, out, ln) ==
    LET c == ResetCursor(ln.chrom, cur)
        start == AdjustStart(ln.start, c.end)
    IN  IF IsValidRegion(start, ln.end)
        THEN [cur |-> Cursor(c.chrom, ln.end),
              out |-> Append(out, WrittenLine(ln, start))]
        ELSE [cur |-> c, out |-> out]

RECURSIVE Sweep(_, _, _)
Sweep(cur, out, lines) ==
    IF lines = <<>> THEN out
    ELSE LET r == LoopBody(cur, out, Head(lines))
         IN  Sweep(r.cur, r.out, Tail(lines))

\* Lines 25-45: a whole call, from the input file's lines to the output's.
AdjustOverlaps(lines) == Sweep(Cursor(NoChrom, 0), <<>>, lines)

\* Lines 27-30 of a call on a file whose lines the loop is about to read;
\* the driver is not running.
RepairInit ==
    /\ infile = <<>>
    /\ outfile = <<>>
    /\ current_chrom = NoChrom
    /\ current_end = 0
    /\ rpc = "loop"
    /\ second_out = <<>>
    /\ pc = "idle"
    /\ source_assembly = "hg19"
    /\ target_assembly = "hg38"
    /\ clean_temp = TRUE
    /\ exists = {}
    /\ active = {}
    /\ trace = <<>>

\* Lines 31-45: the loop reads the next line of input_file and handles it.
ReadLine ==
    /\ rpc = "loop"
    /\ Len(infile) < MaxLen
    /\ \E ln \in LinesAt(Len(infile) + 1) :
         LET r == LoopBody(Cursor(current_chrom, current_end), outfile, ln)
         IN  /\ infile' = Append(infile, ln)
             /\ outfile' = r.out
             /\ current_chrom' = r.cur.chrom
             /\ current_end' = r.cur.end
    /\ UNCHANGED <<rpc, second_out>>
    /\ UNCHANGED pvars

\* Line 30: input_file is exhausted, the with-block closes both files.
EndOfFile ==
    /\ rpc = "loop"
    /\ rpc' = "closed"
    /\ UNCHANGED <<infile, outfile, current_chrom, current_end, second_out>>
    /\ UNCHANGED pvars

\* A second call of adjust_overlaps whose input_file is the first call's
\* output_file.
SecondPass ==
    /\ rpc = "closed"
    /\ second_out' = AdjustOverlaps(outfile)
    /\ rpc' = "rerun"
    /\ UNCHANGED <<infile, outfile, current_chrom, current_end>>
    /\ UNCHANGED pvars

RepairNext ==
    \/ ReadLine
    \/ EndOfFile
    \/ SecondPass

SpecRepair == RepairInit /\ [][RepairNext]_vars

---------------------------------------------------------------------------
(***************************************************************************)
(* convert_bigwig                                                          *)
(*                                                                         *)
(* exists holds the names of the files in the working directory and of the *)
(* programs found on PATH.  chain_file and chrom_sizes_file stand for the  *)
(* two names lines 86-87 compute from the assemblies.                      *)
(***************************************************************************)

Assemblies == {"hg19", "hg38", "mm10"}

\* Lines 22-23: the tools download_resources makes executable.
UcscTools == {"bigWigToBedGraph", "bedGraphToBigWig", "bedClip"}
\* Lines 8-16, those this run uses.
Resources == UcscTools \cup {"chain_file", "chrom_sizes_file"}
\* Line 130.
Intermediates == {"input.bedGraph", "output.bedGraph", "filtered_output.bedGraph",
                  "clipped_output.bedGraph", "sorted_output.bedGraph",
                  "adjusted_output.bedGraph"}
PathPrograms == {"CrossMap", "sort"}

\* Lines 64-67.
EitherKnown(source, target) ==
    (source \in {"hg19", "hg38"} \/ target \in {"hg19", "hg38"})
    /\ source # target
AssembliesAccepted(source, target) ==
    /\ ~(source \notin {"hg19", "hg38"} \/ target \notin {"hg19", "hg38"})
    /\ ~(source = target)

\* Lines 100-126 in statement order.
Stages == <<"decode", "lift", "filter", "clip", "sort", "repair", "encode">>

\* How a stage runs: a subprocess.run of an argument list, a subprocess.run
\* of a shell command line, or Python code of the driver.
StageKind(s) ==
    CASE s \in {"decode", "lift", "clip", "encode"} -> "argv"
      [] s = "sort" -> "shell"
      [] s \in {"filter", "repair"} -> "python"

\* The program a stage executes (lines 100, 105, 115, 116, 126).
Executable(s) ==
    CASE s = "decode" -> "bigWigToBedGraph"
      [] s = "lift" -> "CrossMap"
      [] s = "clip" -> "bedClip"
      [] s = "sort" -> "sort"
      [] s = "encode" -> "bedGraphToBigWig"

\* The file a stage reads (lines 100, 105, 110, 115, 116, 121, 126).
EncodeReadsSorted(s) ==
    CASE s = "decode" -> "input_file"
      [] s = "lift" -> "input.bedGraph"
      [] s = "filter" -> "output.bedGraph"
      [] s = "clip" -> "filtered_output.bedGraph"
      [] s = "sort" -> "clipped_output.bedGraph"
      [] s = "repair" -> "sorted_output.bedGraph"
      [] s = "encode" -> "sorted_output.bedGraph"
StageInput(s) ==
    CASE s = "decode" -> "input_file"
      [] s = "lift" -> "input.bedGraph"
      [] s = "filter" -> "output.bedGraph"
      [] s = "clip" -> "filtered_output.bedGraph"
      [] s = "sort" -> "clipped_output.bedGraph"
      [] s = "repair" -> "sorted_output.bedGraph"
      [] s = "encode" -> "adjusted_output.bedGraph"

\* The file a stage writes.
StageOutput(s) ==
    CASE s = "decode" -> "input.bedGraph"
      [] s = "lift" -> "output.bedGraph"
      [] s = "filter" -> "filtered_output.bedGraph"
      [] s = "clip" -> "clipped_output.bedGraph"
      [] s = "sort" -> "sorted_output.bedGraph"
      [] s = "repair" -> "adjusted_output.bedGraph"
      [] s = "encode" -> "output_file"

\* What a child must find to exit 0: its input, its program and the files
\* its command line names (chain_file at line 105, chrom_sizes_file at lines
\* 115 and 126).
StageNeeds(s) ==
    {StageInput(s), Executable(s)}
    \cup (IF s = "lift" THEN {"chain_file"} ELSE {})
    \cup (IF s \in {"clip", "encode"} THEN {"chrom_sizes_file"} ELSE {})

\* The statement after a stage's.
NextStage(s) ==
    CASE s = "decode" -> "lift"
      [] s = "lift" -> "filter"
      [] s = "filter" -> "clip"
      [] s = "clip" -> "sort"
      [] s = "sort" -> "repair"
      [] s = "repair" -> "encode"
      [] s = "encode" -> "cleanup"

\* What subprocess.run does with a child's exit status rc before the
\* statement next: without check=True it returns a CompletedProcess, which
\* every call site discards.
AfterExit(rc, next) == next

Event(ev, what, rd, wr, rc) ==
    [ev |-> ev, stage |-> what, reads |-> rd, writes |-> wr, rc |-> rc]

\* A call convert_bigwig(input_file, output_file, source_assembly,
\* target_assembly, clean_temp) in a working directory that an earlier run may
\* have left its downloads and (with clean_temp=False) its intermediates in.
Init ==
    /\ pc = "validate"
    /\ source_assembly \in Assemblies
    /\ target_assembly \in Assemblies
    /\ clean_temp \in BOOLEAN
    /\ \E onpath \in SUBSET PathPrograms, input \in SUBSET {"input_file"},
          res \in {{}, Resources}, old \in {{}, Intermediates} :
         exists = onpath \cup input \cup res \cup old
    /\ active = {}
    /\ trace = <<>>
    /\ infile = <<>>
    /\ outfile = <<>>
    /\ current_chrom = NoChrom
    /\ current_end = 0
    /\ rpc = "idle"
    /\ second_out = <<>>

\* Lines 64-67.
Validate ==
    /\ pc = "validate"
    /\ pc' = IF AssembliesAccepted(source_assembly, target_assembly)
             THEN "download" ELSE "rejected"
    /\ UNCHANGED <<source_assembly, target_assembly, clean_temp, exists,
                   active, trace>>
    /\ UNCHANGED rvars

\* Line 77, download_resources (lines 6-23): wget runs for every resource
\* that is absent and may or may not fetch it; os.chmod then raises on a tool
\* that is still absent.
DownloadResources ==
    /\ pc = "download"
    /\ \E fetched \in SUBSET (Resources \ exists) :
         /\ exists' = exists \cup fetched
         /\ pc' = IF UcscTools \subseteq exists' THEN "install" ELSE "raised"
    /\ trace' = IF Resources \subseteq exists THEN trace
                ELSE Append(trace, Event("setup", "wget", "", "", ""))
    /\ UNCHANGED <<source_assembly, target_assembly, clean_temp, active>>
    /\ UNCHANGED rvars

\* Line 82: pip install CrossMap, its result discarded.
InstallCrossMap ==
    /\ pc = "install"
    /\ exists' \in {exists, exists \cup {"CrossMap"}}
    /\ trace' = Append(trace, Event("setup", "pip", "", "", ""))
    /\ pc' = "load_sizes"
    /\ UNCHANGED <<source_assembly, target_assembly, clean_temp, active>>
    /\ UNCHANGED rvars

\* Lines 91-95: open(chrom_sizes_file) raises when the file is absent.
LoadChromSizes ==
    /\ pc = "load_sizes"
    /\ IF "chrom_sizes_file" \in exists
       THEN /\ pc' = "decode"
            /\ trace' = Append(trace,
                   Event("setup", "load_sizes", "chrom_sizes_file", "", ""))
       ELSE /\ pc' = "raised"
            /\ trace' = Append(trace, Event("raise", "load_sizes", "", "", ""))
    /\ UNCHANGED <<source_assembly, target_assembly, clean_temp, exists, active>>
    /\ UNCHANGED rvars

\* subprocess.run([...]) starts the child (lines 100, 105, 115, 126), or
\* raises FileNotFoundError when the program is not there; the driver then
\* waits inside run() until the child exits.
SpawnArgv(s) ==
    /\ pc = s
    /\ StageKind(s) = "argv"
    /\ s \notin active
    /\ IF Executable(s) \in exists
       THEN /\ active' = active \cup {s}
            /\ trace' = Append(trace,
                   Event("begin", s, StageInput(s), StageOutput(s), ""))
            /\ pc' = pc
       ELSE /\ active' = active
            /\ trace' = Append(trace, Event("raise", s, "", "", "missing"))
            /\ pc' = "raised"
    /\ UNCHANGED <<source_assembly, target_assembly, clean_temp, exists>>
    /\ UNCHANGED rvars

\* subprocess.run("sort ... > sorted_output.bedGraph", shell=True), line 116:
\* the shell always starts and creates the redirection target before it
\* looks for sort.
SpawnShell(s) ==
    /\ pc = s
    /\ StageKind(s) = "shell"
    /\ s \notin active
    /\ active' = active \cup {s}
    /\ exists' = exists \cup {StageOutput(s)}
    /\ trace' = Append(trace,
           Event("begin", s, StageInput(s), StageOutput(s), ""))
    /\ UNCHANGED <<pc, source_assembly, target_assembly, clean_temp>>
    /\ UNCHANGED rvars

\* The child of stage s exits and run() returns.  The child exits 0 only if
\* it found what it needs; a child that exits non-zero may or may not leave
\* an output file.
ChildExits(s) ==
    /\ pc = s
    /\ s \in active
    /\ StageKind(s) \in {"argv", "shell"}
    /\ \E rc \in {"ok", "nonzero"}, left \in BOOLEAN :
         /\ rc = "ok" => (left /\ StageNeeds(s) \subseteq exists)
         /\ exists' = IF left THEN exists \cup {StageOutput(s)} ELSE exists
         /\ trace' = Append(trace,
                Event("end", s, StageInput(s), StageOutput(s), rc))
         /\ pc' = AfterExit(rc, NextStage(s))
    /\ active' = active \ {s}
    /\ UNCHANGED <<source_assembly, target_assembly, clean_temp>>
    /\ UNCHANGED rvars

\* Lines 110 and 121 (adjust_overlaps line 30): the with statement opens
\* the input for reading, which raises when it is absent, then creates the
\* output.
OpenFiles(s) ==
    /\ pc = s
    /\ StageKind(s) = "python"
    /\ s \notin active
    /\ IF StageInput(s) \in exists
       THEN /\ active' = active \cup {s}
            /\ exists' = exists \cup {StageOutput(s)}
            /\ trace' = Append(trace,
                   Event("begin", s, StageInput(s), StageOutput(s), ""))
            /\ pc' = pc
       ELSE /\ active' = active
            /\ exists' = exists
            /\ trace' = Append(trace, Event("raise", s, "", "", "missing"))
            /\ pc' = "raised"
    /\ UNCHANGED <<source_assembly, target_assembly, clean_temp>>
    /\ UNCHANGED rvars

\* Lines 111-114 and 31-45: the loop runs to the end of the input and the
\* with statement closes both files, or a line makes the loop raise
\* (IndexError at line 112, ValueError at lines 32-33) and the exception
\* leaves the driver.
LoopEnds(s) ==
    /\ pc = s
    /\ s \in active
    /\ StageKind(s) = "python"
    /\ \E rc \in {"ok", "raised"} :
         /\ trace' = Append(trace,
                Event(IF rc = "ok" THEN "end" ELSE "raise", s,
                      StageInput(s), StageOutput(s), rc))
         /\ pc' = IF rc = "ok" THEN NextStage(s) ELSE "raised"
    /\ active' = active \ {s}
    /\ UNCHANGED <<source_assembly, target_assembly, clean_temp, exists>>
    /\ UNCHANGED rvars

\* Lines 129-132.
Cleanup ==
    /\ pc = "cleanup"
    /\ exists' = IF clean_temp THEN exists \ Intermediates ELSE exists
    /\ trace' = IF clean_temp
                THEN Append(trace, Event("setup", "cleanup", "", "", ""))
                ELSE trace
    /\ pc' = "report"
    /\ UNCHANGED <<source_assembly, target_assembly, clean_temp, active>>
    /\ UNCHANGED rvars

\* Line 134: "Conversion complete!".
ReportComplete ==
    /\ pc = "report"
    /\ pc' = "complete"
    /\ UNCHANGED <<source_assembly, target_assembly, clean_temp, exists,
                   active, trace>>
    /\ UNCHANGED rvars

StageNames == { Stages[i] : i \in 1 .. Len(Stages) }

Next ==
    \/ Validate
    \/ DownloadResources
    \/ InstallCrossMap
    \/ LoadChromSizes
    \/ \E s \in StageNames : SpawnArgv(s)
    \/ \E s \in StageNames : SpawnShell(s)
    \/ \E s \in StageNames : ChildExits(s)
    \/ \E s \in StageNames : OpenFiles(s)
    \/ \E s \in StageNames : LoopEnds(s)
    \/ Cleanup
    \/ ReportComplete

Spec == Init /\ [][Next]_vars



---------------------------------------------------------------------------
(***************************************************************************)
(* Properties of adjust_overlaps, checked under SpecRepair.                *)
(***************************************************************************)

Max(a, b) == IF a >= b THEN a ELSE b

\* Ascending by (chromosome, start), as sort -k1,1 -k2,2n leaves a file.
Sorted(lines) ==
    \A i \in 1 .. Len(lines) - 1 :
        \/ ChromRank(lines[i].chrom) < ChromRank(lines[i + 1].chrom)
        \/ /\ lines[i].chrom = lines[i + 1].chrom
           /\ lines[i].start <= lines[i + 1].start

WellFormed(lines) ==
    \A i \in 1 .. Len(lines) : 0 <= lines[i].start /\ lines[i].start < lines[i].end

\* Positions of chromosome c covered by the half-open ranges of lines.
Covered(lines, c) ==
    UNION { lines[i].start .. lines[i].end - 1 :
            i \in { k \in 1 .. Len(lines) : lines[k].chrom = c } }

\* The input line the j-th output line was written for: its value token is
\* its position in the input.
SourceOf(j) == outfile[j].value
Emitted(i) == \E j \in 1 .. Len(outfile) : SourceOf(j) = i

\* Input lines i1..i2 lie in one chromosome run.
SameRun(i1, i2) == \A k \in i1 .. i2 : infile[k].chrom = infile[i1].chrom

\* The end of the line emitted before output line j in its chromosome run,
\* 0 if there is none.
PrevEnd(j) ==
    IF j > 1 /\ SameRun(SourceOf(j - 1), SourceOf(j))
    THEN outfile[j - 1].end ELSE 0

\* The line the step has just read, and current_end for its chromosome as
\* line 39 sees it.
JustRead == infile'[Len(infile')]
ReadsALine == rpc = "loop" /\ Len(infile') = Len(infile) + 1
EndFor(ln) == IF ln.chrom = current_chrom THEN current_end ELSE 0

\* C1: on input sorted by (chromosome, start), every output line has
\* start < end, and within a chromosome the output lines have strictly
\* increasing starts and each starts at or after the end of those before it.
C1_OutputMonotone ==
    Sorted(infile) =>
        /\ \A j \in 1 .. Len(outfile) : outfile[j].start < outfile[j].end
        /\ \A i, j \in 1 .. Len(outfile) :
             (i < j /\ outfile[i].chrom = outfile[j].chrom) =>
                 /\ outfile[i].start < outfile[j].start
                 /\ outfile[i].end <= outfile[j].start

C1_Witness ==
    /\ rpc = "closed"
    /\ Sorted(infile)
    /\ Len(infile) = 3
    /\ Len(outfile) = 3
    /\ infile[1].chrom = infile[2].chrom
    /\ infile[2].start < infile[1].end
    /\ infile[3].chrom # infile[2].chrom

\* C2 as stated: for every input, a second pass over the first pass's
\* output writes that output again.
C2_IdempotentAnyInput ==
    rpc = "rerun" => second_out = outfile

\* C2 amended: for every input sorted by (chromosome, start), a second pass
\* over the first pass's output writes that output again.
C2_IdempotentOnSorted ==
    (rpc = "rerun" /\ Sorted(infile)) => second_out = outfile

C2_Witness ==
    /\ rpc = "rerun"
    /\ Sorted(infile)
    /\ Len(infile) = 3
    /\ Len(outfile) = 2
    /\ outfile[2].start > infile[SourceOf(2)].start
    /\ second_out = outfile

C7_ChromosomeReset ==
    /\ \A i \in 1 .. Len(infile) :
         ( /\ (i = 1 \/ infile[i - 1].chrom # infile[i].chrom)
           /\ 0 <= infile[i].start
           /\ infile[i].start < infile[i].end )
         => \E j \in 1 .. Len(outfile) : outfile[j] = infile[i]
    /\ LET n == Len(infile)
       IN  (n > 1 /\ infile[n - 1].chrom # infile[n].chrom) =>
               /\ current_chrom = infile[n].chrom
               /\ current_end = IF Emitted(n) THEN infile[n].end ELSE 0

C7_Witness ==
    /\ Len(infile) = 2
    /\ Len(outfile) = 2
    /\ infile[1].chrom # infile[2].chrom
    /\ infile[2].start < outfile[1].end
    /\ outfile[2] = infile[2]
    /\ current_chrom = infile[2].chrom

\* C8: a line whose end is <= current_end for its chromosome is dropped.
\* On the cursor's chromosome nothing is written and current_chrom and
\* current_end stay as they are; on another chromosome (current_end 0 for it,
\* so end <= 0) nothing is written and the cursor stays at the reset value
\* (its chromosome, 0).  No output line ever has start >= end.
C8_SubsumedDropped ==
    [][ ReadsALine =>
          /\ (JustRead.chrom = current_chrom /\ JustRead.end <= current_end) =>
                /\ outfile' = outfile
                /\ current_chrom' = current_chrom
                /\ current_end' = current_end
          /\ (JustRead.chrom # current_chrom /\ JustRead.end <= 0) =>
                /\ outfile' = outfile
                /\ current_chrom' = JustRead.chrom
                /\ current_end' = 0
          /\ \A j \in 1 .. Len(outfile') : outfile'[j].start < outfile'[j].end
      ]_vars

C8_Witness ==
    /\ Len(infile) = 2
    /\ Len(outfile) = 1
    /\ outfile[1] = infile[1]
    /\ infile[2].chrom = infile[1].chrom
    /\ infile[2].start > infile[1].start
    /\ infile[2].end <= infile[1].end
    /\ current_chrom = infile[1].chrom
    /\ current_end = infile[1].end

\* C9: a line with start < end whose start equals current_end for its
\* chromosome is written as it is, and current_end becomes its end.
C9_AbuttingUnchanged ==
    [][ ( /\ ReadsALine
          /\ JustRead.start < JustRead.end
          /\ JustRead.start = EndFor(JustRead) )
        => /\ outfile' = Append(outfile, JustRead)
           /\ current_chrom' = JustRead.chrom
           /\ current_end' = JustRead.end
      ]_vars

C9_Witness ==
    /\ Len(infile) = 2
    /\ Len(outfile) = 2
    /\ infile[1].chrom = infile[2].chrom
    /\ outfile[1].end > 0
    /\ infile[2].start = outfile[1].end
    /\ outfile[2] = infile[2]
    /\ current_end = infile[2].end

\* C10: on input sorted by (chromosome, start) whose lines all have
\* 0 <= start < end, the output covers, per chromosome, exactly the
\* positions the input covers.
C10_CoveragePreserved ==
    (Sorted(infile) /\ WellFormed(infile)) =>
        \A c \in Chroms : Covered(outfile, c) = Covered(infile, c)

C10_Witness ==
    /\ rpc = "closed"
    /\ Sorted(infile)
    /\ WellFormed(infile)
    /\ Len(infile) = 3
    /\ Len(outfile) = 2
    /\ ~Emitted(3)
    /\ outfile[2].start > infile[2].start

---------------------------------------------------------------------------
(***************************************************************************)
(* Properties of convert_bigwig, checked under Spec.                       *)
(***************************************************************************)

ExternalStages == {"decode", "lift", "clip", "sort", "encode"}

StageFailed(e) ==
    /\ e.stage \in ExternalStages
    /\ e.ev \in {"end", "raise"}
    /\ e.rc \in {"nonzero", "missing"}

Begun == SelectSeq(trace, LAMBDA e : e.ev = "begin")

\* C3: once an external stage has exited non-zero or was not found, no stage
\* is begun after it and completion is not reported.
C3_FailureIsFatal ==
    \A k \in 1 .. Len(trace) :
        StageFailed(trace[k]) =>
            /\ \A m \in k + 1 .. Len(trace) : trace[m].ev # "begin"
            /\ pc # "complete"

\* C4: the call is rejected exactly when the pair of assemblies is neither
\* (hg19, hg38) nor (hg38, hg19), and a rejected call has run no process and
\* opened, written or removed no file.
C4_RejectsBeforeAnyWork ==
    LET valid == <<source_assembly, target_assembly>>
                    \in {<<"hg19", "hg38">>, <<"hg38", "hg19">>}
    IN  /\ pc # "validate" => (pc = "rejected" <=> ~valid)
        /\ pc = "rejected" => (trace = <<>> /\ active = {})
        /\ (trace # <<>> \/ active # {}) => valid

C4_Witness ==
    /\ pc = "rejected"
    /\ source_assembly = "hg19"
    /\ target_assembly = "hg19"

\* C5: the stages begin in the order decode, lift, filter, clip, sort,
\* repair, encode; a stage that has begun ends (or raises) before anything
\* else happens; every stage after decode begins right after the stage before
\* it has ended and reads the file that stage wrote; repair reads
\* sorted_output.bedGraph and encode reads repair's adjusted_output.bedGraph.
C5_StagesInOrder ==
    LET order == <<"decode", "lift", "filter", "clip", "sort", "repair", "encode">>
    IN  /\ Len(Begun) <= Len(order)
        /\ \A k \in 1 .. Len(Begun) : Begun[k].stage = order[k]
        /\ Cardinality(active) <= 1
        /\ \A k \in 1 .. Len(trace) :
             trace[k].ev = "begin" =>
                 /\ k < Len(trace) =>
                        /\ trace[k + 1].stage = trace[k].stage
                        /\ trace[k + 1].ev \in {"end", "raise"}
                 /\ k = Len(trace) => (active = {trace[k].stage} /\ pc = trace[k].stage)
                 /\ trace[k].stage # "decode" =>
                        /\ trace[k - 1].ev = "end"
                        /\ trace[k - 1].writes = trace[k].reads
                 /\ trace[k].stage = "repair" =>
                        /\ trace[k].reads = "sorted_output.bedGraph"
                        /\ trace[k - 1].stage = "sort"
                 /\ trace[k].stage = "encode" =>
                        /\ trace[k].reads = "adjusted_output.bedGraph"
                        /\ trace[k - 1].stage = "repair"

C5_Witness ==
    /\ pc = "complete"
    /\ Len(Begun) = 7
    /\ \A k \in 1 .. Len(trace) : trace[k].rc \in {"", "ok"}

=============================================================================
